---- MODULE Spec2Model ----
(***************************************************************************)
(* Model of MuxerApp (src/muxer_app_bundled.py): the selection state, the  *)
(* output-path logic, and the ffmpeg job driven through one QProcess.      *)
(*                                                                         *)
(* Strings are sequences of tokens, so that basename/splitext/strip/       *)
(* endswith are computed and not assumed.  A path is a record              *)
(* [dir, name]; the empty Python string "" is NoPath.                      *)
(* Times and durations are counted in hundredths of a second.              *)
(* Each handler is one atomic action; a QMessageBox is an entry appended   *)
(* to reports (terminal outcomes) and is dismissed at once.  The progress  *)
(* dialog is the value last handed to setValue.                            *)
(*                                                                         *)
(* Spec is the whole program.  TLC explores it in parts: SpecJob (the job, *)
(* with the output path derived beside the video), SpecOut (the output     *)
(* path logic, with children that write nothing), SpecSel (the selection   *)
(* handlers alone), SpecFrame (the job, launched with a typed name or a    *)
(* chosen output path) and SpecHB (jobs of unknown duration close to the   *)
(* heartbeat cap).                                                         *)
(***************************************************************************)
EXTENDS Integers, Sequences, FiniteSets, TLC

VARIABLES
    video_path,         \* self.video_path
    audio_path,         \* self.audio_path
    output_path,        \* self.output_path
    total_duration,     \* self.total_duration (hundredths of a second)
    last_video_dir,     \* self.last_video_dir
    last_audio_dir,     \* self.last_audio_dir
    save_toggle,        \* self.save_toggle.isChecked()
    output_name_input,  \* self.output_name_input.text()
    output_btn,         \* self.output_btn.isEnabled()
    go_btn,             \* self.go_btn.isEnabled()
    progress,           \* self.progress: [created, value]
    proc_state,         \* self.process.state()
    exit_code,          \* self.process.exitCode()
    proc_out,           \* last argument of the command the running child got
    errbuf,             \* unread standard error of self.process
    child,              \* the ffmpeg child tracked by self.process
    child_code,         \* exit code of that child once it is dead
    n_alive,            \* number of ffmpeg children alive in the system
    written,            \* history: all chunks the current child wrote
    n_writes,           \* history: chunks written by the current child in this run
    reports,            \* history: terminal outcomes shown for the current job
    explicit_path,      \* history: last path chosen through select_output
    video_since,        \* history: a video was selected after that choice
    name_typed,         \* history: the output name field holds what the user typed
    mux_box,            \* the QMessageBox the last run of mux_files showed
    probe_failed        \* history: the last duration probe ended in a failure

vars == <<video_path, audio_path, output_path, total_duration, last_video_dir,
          last_audio_dir, save_toggle, output_name_input, output_btn, go_btn,
          progress, proc_state, exit_code, proc_out, errbuf, child, child_code,
          n_alive, written, n_writes, reports, explicit_path, video_since,
          name_typed, mux_box, probe_failed>>

selVars == <<video_path, audio_path, output_path, last_video_dir, last_audio_dir,
             save_toggle, output_name_input, output_btn, go_btn, explicit_path,
             video_since, name_typed>>

jobVars == <<total_duration, progress, proc_state, exit_code, proc_out, errbuf,
             child, child_code, n_alive, written, n_writes, reports, mux_box,
             probe_failed>>

----------------------------------------------------------------------------
\* Bounds of the model.

\* chunks one child writes to standard error
MaxChunks == 2
\* chunks that may sit unread in the QProcess buffer
MaxBuf == 2
\* cancel clicks that reach a running process within one job
MaxCancels == 1

----------------------------------------------------------------------------
\* Strings and paths.

NoText == <<>>
NoPath == [dir |-> "", name |-> NoText]

Exts == {".mp4", ".mov", ".wav", ".txt"}

MuxSuffix == <<"_mux", ".mp4">>

\* os.path.dirname / os.path.basename / os.path.join
Dirname(p) == p.dir
Basename(p) == p.name
Join(d, n) == [dir |-> d, name |-> n]

\* os.path.splitext(name)[0]
SplitextStem(n) ==
    IF Len(n) >= 2 /\ n[Len(n)] \in Exts THEN SubSeq(n, 1, Len(n) - 1) ELSE n

\* the extension os.path.splitext / str.endswith look at
ExtOf(n) == IF Len(n) >= 2 /\ n[Len(n)] \in Exts THEN n[Len(n)] ELSE ""

\* str.endswith("_mux.mp4")
EndsWithMux(t) ==
    Len(t) >= 2 /\ SubSeq(t, Len(t) - 1, Len(t)) = MuxSuffix

\* str.strip()
RECURSIVE LStrip(_)
LStrip(t) == IF t # <<>> /\ Head(t) = " " THEN LStrip(Tail(t)) ELSE t
RECURSIVE RStrip(_)
RStrip(t) ==
    IF t # <<>> /\ t[Len(t)] = " " THEN RStrip(SubSeq(t, 1, Len(t) - 1)) ELSE t
Strip(t) == RStrip(LStrip(t))

\* f"{video_name}_mux.mp4"
DefaultName(vp) == SplitextStem(Basename(vp)) \o MuxSuffix

----------------------------------------------------------------------------
\* Inputs.

Videos == { [dir |-> "/v1", name |-> <<"a", ".mp4">>],
            [dir |-> "/v2", name |-> <<"b", ".mov">>] }

Audios == { [dir |-> "/s", name |-> <<"mix", ".wav">>] }

\* an existing file that is neither video nor audio
OtherFiles == { [dir |-> "/v1", name |-> <<"notes", ".txt">>] }

\* filter_exts of the two drop widgets
VideoExts == {".mp4", ".mov"}

AudioExts == {".wav"}

\* what one drop can carry: one file, or a text file followed by a video
DropLists ==
    { <<f>> : f \in Videos \cup Audios \cup OtherFiles } \cup
    { <<[dir |-> "/v1", name |-> <<"notes", ".txt">>],
        [dir |-> "/v2", name |-> <<"b", ".mov">>]>> }

\* dropEvent: valid = [f for f in files if f.lower().endswith(filter_exts)]
ValidFiles(files, exts) ==
    SelectSeq(files, LAMBDA f : ExtOf(f.name) \in exts)

\* what QFileDialog.getSaveFileName may return ("" when dismissed)
OutChoices == { [dir |-> "/o", name |-> <<"out", ".mp4">>],
                [dir |-> "/v1", name |-> <<"a", "_mux", ".mp4">>] }

\* what the user may leave in the output name field
TypedNames == { NoText, <<"c", ".mp4">>, <<" ", "c", ".mp4", " ">>,
                <<"c", "_mux", ".mp4">>, <<" ">> }

\* exit codes a child may end with by itself
ExitCodes == {0, 1}

\* the code QProcess reports for a child it killed (a signal number, never 0)
KilledCodes == ExitCodes \ {0}

\* what ffprobe may report, in hundredths of a second (0: unknown)
Durations == {0, 12000}

\* how subprocess.run(ffprobe ...) may end: not spawned at all (an exception),
\* or exited with returncode and a standard output that is a number or not
NotSpawned == [spawned |-> FALSE, returncode |-> 0, numeric |-> FALSE, value |-> 0]

ProbeOutcomes ==
    { NotSpawned } \cup
    { [spawned |-> TRUE, returncode |-> rc, numeric |-> FALSE, value |-> 0] :
        rc \in ExitCodes } \cup
    [spawned : {TRUE}, returncode : ExitCodes, numeric : {TRUE}, value : Durations \ {0}]

NoTime == <<>>

\* chunks of ffmpeg's standard error: time is <<h, m, s, hundredths>> when the
\* chunk holds "time=HH:MM:SS.ff", frame says whether it holds "frame="
Chunks == { [time |-> <<0, 0, 1, 0>>, frame |-> TRUE],
            [time |-> <<0, 1, 0, 0>>, frame |-> TRUE],
            [time |-> <<1, 0, 0, 0>>, frame |-> FALSE],
            [time |-> NoTime, frame |-> TRUE],
            [time |-> NoTime, frame |-> FALSE] }

----------------------------------------------------------------------------
\* Output path logic.

\* update_default_output_path: the value self.output_path gets
UpdateDefaultOutputPath(vp, text) ==
    IF vp # NoPath
    THEN LET base_name == Strip(text)
         IN Join(Dirname(vp),
                 IF base_name = NoText THEN DefaultName(vp) ELSE base_name)
    ELSE NoPath

\* a variant that does not look at the output
CheckReady_AnyOutput(vp, ap, tog, op) == vp # NoPath /\ ap # NoPath

\* check_ready: the value go_btn.setEnabled gets
CheckReady(vp, ap, tog, op) ==
    IF vp # NoPath /\ ap # NoPath
    THEN ~(~tog /\ op = NoPath)
    ELSE FALSE

\* a variant that leaves the path alone when the name field changes
UpdateOutputName_Stale(tog, vp, text, op) == op

\* update_output_name (slot of output_name_input.textChanged)
UpdateOutputName(tog, vp, text, op) ==
    IF tog /\ vp # NoPath THEN UpdateDefaultOutputPath(vp, text) ELSE op

\* set_video_path: the text of the output name field afterwards
SetVideoName(text, path) ==
    IF text = NoText \/ EndsWithMux(text) THEN DefaultName(path) ELSE text

\* a variant that derives the path whatever the toggle says
SetVideoOutputPath_Always(tog, path, text, op) ==
    UpdateDefaultOutputPath(path, SetVideoName(text, path))

\* set_video_path: the output path afterwards (setText fires textChanged when
\* the text changes, then the handler looks at the toggle itself)
SetVideoOutputPath(tog, path, text, op) ==
    LET text2 == SetVideoName(text, path)
        op1 == IF text2 # text THEN UpdateOutputName(tog, path, text2, op) ELSE op
    IN IF tog THEN UpdateDefaultOutputPath(path, text2) ELSE op1

set_video_path(path) ==
    /\ video_path' = path
    /\ last_video_dir' = Dirname(path)
    /\ output_name_input' = SetVideoName(output_name_input, path)
    /\ output_path' = SetVideoOutputPath(save_toggle, path, output_name_input, output_path)
    /\ go_btn' = CheckReady(path, audio_path, save_toggle, output_path')
    /\ video_since' = TRUE
    /\ name_typed' = (name_typed /\ output_name_input' = output_name_input)
    /\ UNCHANGED <<audio_path, last_audio_dir, save_toggle, output_btn, explicit_path>>
    /\ UNCHANGED jobVars

\* select_video: the dialog returns a file or "" when dismissed; its name filter
\* narrows what is listed, a file of another type can still be entered
select_video ==
    \E path \in Videos \cup OtherFiles \cup {NoPath} :
        IF path # NoPath THEN set_video_path(path) ELSE UNCHANGED vars

\* DragDropWidget.dropEvent -> fileDropped -> handle_video_drop
handle_video_drop ==
    \E files \in DropLists :
        LET valid == ValidFiles(files, VideoExts)
        IN IF valid # <<>> THEN set_video_path(valid[1]) ELSE UNCHANGED vars

set_audio_path(path) ==
    /\ audio_path' = path
    /\ last_audio_dir' = Dirname(path)
    /\ go_btn' = CheckReady(video_path, path, save_toggle, output_path)
    /\ UNCHANGED <<video_path, output_path, last_video_dir, save_toggle,
                   output_name_input, output_btn, explicit_path, video_since,
                   name_typed>>
    /\ UNCHANGED jobVars

select_audio ==
    \E path \in Audios \cup OtherFiles \cup {NoPath} :
        IF path # NoPath THEN set_audio_path(path) ELSE UNCHANGED vars

handle_audio_drop ==
    \E files \in DropLists :
        LET valid == ValidFiles(files, AudioExts)
        IN IF valid # <<>> THEN set_audio_path(valid[1]) ELSE UNCHANGED vars

\* toggle_save_option: the output path afterwards (state is the new check state)
ToggleOutputPath(state, vp, text, op) ==
    IF state
    THEN IF vp # NoPath THEN UpdateDefaultOutputPath(vp, text) ELSE NoPath
    ELSE op

\* the user clicks the check box; stateChanged -> toggle_save_option
toggle_save_option ==
    /\ save_toggle' = ~save_toggle
    /\ output_btn' = ~save_toggle'
    /\ output_path' = ToggleOutputPath(save_toggle', video_path, output_name_input,
                                       output_path)
    /\ UNCHANGED <<video_path, audio_path, last_video_dir, last_audio_dir,
                   output_name_input, go_btn, explicit_path, video_since,
                   name_typed>>
    /\ UNCHANGED jobVars

\* select_output: clicked on the enabled button; the dialog returns a path or ""
select_output ==
    /\ output_btn
    /\ \E path \in OutChoices \cup {NoPath} :
        IF path # NoPath
        THEN /\ output_path' = path
             /\ explicit_path' = path
             /\ video_since' = FALSE
             /\ go_btn' = CheckReady(video_path, audio_path, save_toggle, path)
        ELSE UNCHANGED <<output_path, explicit_path, video_since, go_btn>>
    /\ UNCHANGED <<video_path, audio_path, last_video_dir, last_audio_dir,
                   save_toggle, output_name_input, output_btn, name_typed>>
    /\ UNCHANGED jobVars

\* the user edits the output name field; textChanged -> update_output_name
update_output_name ==
    \E text \in TypedNames :
        /\ text # output_name_input
        /\ output_name_input' = text
        /\ name_typed' = TRUE
        /\ output_path' = UpdateOutputName(save_toggle, video_path, text, output_path)
        /\ UNCHANGED <<video_path, audio_path, last_video_dir, last_audio_dir,
                       save_toggle, output_btn, go_btn, explicit_path, video_since>>
        /\ UNCHANGED jobVars

----------------------------------------------------------------------------
\* Progress parsing.

\* re.search(r"time=(\d+):(\d+):(\d+\.\d+)", data): the first chunk of the data
\* read that holds a time stamp, 0 when there is none
RECURSIVE MatchFrom(_, _)
MatchFrom(data, i) ==
    IF i > Len(data) THEN 0
    ELSE IF data[i].time # NoTime THEN i
    ELSE MatchFrom(data, i + 1)
Match(data) == MatchFrom(data, 1)

\* "frame=" in data
HasFrame(data) == \E i \in 1..Len(data) : data[i].frame

\* int(h) * 3600 + int(m) * 60 + float(s), in hundredths of a second
Current(t) == (t[1] * 3600 + t[2] * 60 + t[3]) * 100 + t[4]

\* a variant that rounds to the nearest integer
Percent_Rounded(current, duration) == (2 * current * 100 + duration) \div (2 * duration)

\* int((current / self.total_duration) * 100)
Percent(current, duration) == (current * 100) \div duration

\* a variant that forgets the clamp
ClampPercent_Unclamped(percent) == percent

\* min(percent, 100)
ClampPercent(percent) == IF percent < 100 THEN percent ELSE 100

\* a variant that advances by two points
HeartbeatValue_Double(val) == IF val < 94 THEN val + 2 ELSE 95

\* a variant that forgets the cap
HeartbeatValue_Uncapped(val) == val + 1

\* if val < 95: setValue(val + 1)
HeartbeatValue(val) == IF val < 95 THEN val + 1 ELSE val

\* a variant that never takes data with a time stamp for a heartbeat
UpdateProgressValue_ByContent(data, duration, prog) ==
    LET m == Match(data)
    IN IF m # 0
       THEN IF duration > 0 /\ prog.created
            THEN [prog EXCEPT !.value = ClampPercent(Percent(Current(data[m].time), duration))]
            ELSE prog
       ELSE IF HasFrame(data) /\ prog.created
            THEN [prog EXCEPT !.value = HeartbeatValue(prog.value)]
            ELSE prog

\* update_progress: self.progress after the data read was parsed
UpdateProgressValue(data, duration, prog) ==
    LET m == Match(data)
    IN IF m # 0 /\ duration > 0
       THEN IF prog.created
            THEN [prog EXCEPT !.value = ClampPercent(Percent(Current(data[m].time), duration))]
            ELSE prog
       ELSE IF HasFrame(data) /\ prog.created
            THEN [prog EXCEPT !.value = HeartbeatValue(prog.value)]
            ELSE prog

----------------------------------------------------------------------------
\* The job.

NoProgress == [created |-> FALSE, value |-> 0]

\* a variant whose dialog starts full
NewProgress_Full == [created |-> TRUE, value |-> 100]

\* QProgressDialog(...) followed by setValue(0)
NewProgress == [created |-> TRUE, value |-> 0]

\* a QMessageBox that tells a terminal outcome, with the progress value and the
\* state of self.process at the moment it is shown
Report(kind, path, err, prog, state) ==
    [kind |-> kind, path |-> path, err |-> err, percent |-> prog.value, state |-> state]

\* a variant that derives the path whatever the toggle says
ResolveOutputPath_Always(tog, vp, text, op) == UpdateDefaultOutputPath(vp, text)

\* a variant that forgets the name field
ResolveOutputPath_NoName(tog, vp, text, op) ==
    IF tog THEN UpdateDefaultOutputPath(vp, NoText) ELSE op

\* mux_files: the output path after "if self.save_toggle.isChecked(): ..."
ResolveOutputPath(tog, vp, text, op) ==
    IF tog THEN UpdateDefaultOutputPath(vp, text) ELSE op

\* a variant that spawns a child whatever the state
StartAccepted_Always(state) == TRUE

\* QProcess.start: a process that is not NotRunning refuses to start another
StartAccepted(state) == state = "NotRunning"

\* a variant that trusts the output whatever the exit code
GetTotalDuration_AnyExit(o) == IF o.spawned /\ o.numeric THEN o.value ELSE 0

\* get_total_duration: float(stdout) when the probe exited with 0, else 0; an
\* exception (no ffprobe to run, float() of a text that is no number) gives 0
GetTotalDuration(o) ==
    IF ~o.spawned THEN 0
    ELSE IF o.returncode = 0
         THEN (IF o.numeric THEN o.value ELSE 0)
         ELSE 0

\* the outcomes of the probe that are failures: nothing spawned, a nonzero
\* exit, or an output that is no number
ProbeFailed(o) == ~o.spawned \/ o.returncode # 0 \/ ~o.numeric

\* a variant that launches without the ffmpeg check
Validated_Unchecked(out, ok) == out # NoPath

\* mux_files: neither of the two early returns is taken
Validated(out, ok) == out # NoPath /\ ok

\* mux_files: the QMessageBox it shows, "" when it shows none
MuxBox(out, ok, duration) ==
    IF out = NoPath THEN "No output location specified"
    ELSE IF ~ok THEN "FFmpeg is not available"
    ELSE IF duration = 0 THEN "Could not determine video duration"
    ELSE ""

\* mux_files: clicked on the enabled Mux button.  ok is the result of the
\* "ffmpeg -version" check, probe the way the ffprobe call ends (drawn only
\* when the call is made).
mux_files ==
    /\ go_btn
    /\ \E ok \in BOOLEAN :
       LET out == ResolveOutputPath(save_toggle, video_path, output_name_input,
                                    output_path)
       IN \E probe \in IF Validated(out, ok) THEN ProbeOutcomes ELSE {NotSpawned} :
        LET duration == GetTotalDuration(probe)
        IN /\ output_path' = out
           /\ mux_box' = MuxBox(out, ok, duration)
           /\ IF ~Validated(out, ok)
              THEN UNCHANGED <<total_duration, progress, proc_state, exit_code,
                               proc_out, errbuf, child, child_code, n_alive, written,
                               n_writes, reports, probe_failed>>
              ELSE /\ total_duration' = duration
                   /\ probe_failed' = ProbeFailed(probe)
                   /\ progress' = NewProgress
                   /\ IF StartAccepted(proc_state)
                      THEN /\ proc_state' = "Running"
                           /\ exit_code' = 0
                           /\ proc_out' = out
                           /\ errbuf' = <<>>
                           /\ child' = "alive"
                           /\ n_alive' = n_alive + 1
                           /\ written' = <<>>
                           /\ n_writes' = 0
                           /\ reports' = <<>>
                           /\ UNCHANGED child_code
                      ELSE UNCHANGED <<proc_state, exit_code, proc_out, errbuf, child,
                                       child_code, n_alive, written, n_writes, reports>>
    /\ UNCHANGED <<video_path, audio_path, last_video_dir, last_audio_dir,
                   save_toggle, output_name_input, output_btn, go_btn, explicit_path,
                   video_since, name_typed>>

\* the ffmpeg child writes a chunk to its standard error
ChildWrite ==
    /\ child = "alive"
    /\ n_writes < MaxChunks
    /\ Len(errbuf) < MaxBuf
    /\ \E c \in Chunks :
        /\ errbuf' = Append(errbuf, c)
        /\ written' = Append(written, c)
    /\ n_writes' = n_writes + 1
    /\ UNCHANGED selVars
    /\ UNCHANGED <<mux_box, probe_failed>>
    /\ UNCHANGED <<total_duration, progress, proc_state, exit_code, proc_out, child,
                   child_code, n_alive, reports>>

\* the ffmpeg child exits by itself
ChildExit ==
    /\ child = "alive"
    /\ \E code \in ExitCodes : child_code' = code
    /\ child' = "dead"
    /\ n_alive' = n_alive - 1
    /\ UNCHANGED selVars
    /\ UNCHANGED <<mux_box, probe_failed>>
    /\ UNCHANGED <<total_duration, progress, proc_state, exit_code, proc_out, errbuf,
                   written, n_writes, reports>>

\* update_progress (slot of readyReadStandardError): readAllStandardError
\* empties the buffer
update_progress ==
    /\ proc_state = "Running"
    /\ errbuf # <<>>
    /\ progress' = UpdateProgressValue(errbuf, total_duration, progress)
    /\ errbuf' = <<>>
    /\ UNCHANGED selVars
    /\ UNCHANGED <<mux_box, probe_failed>>
    /\ UNCHANGED <<total_duration, proc_state, exit_code, proc_out, child, child_code,
                   n_alive, written, n_writes, reports>>

\* a variant that leaves the last sample in place
FinishedProgress_Keep(prog) == prog

\* a variant that completes the bar only when it was moving
FinishedProgress_Moving(prog) ==
    IF prog.created /\ prog.value > 0 THEN [prog EXCEPT !.value = 100] ELSE prog

\* process_finished: self.progress after "if self.progress: setValue(100)"
FinishedProgress(prog) ==
    IF prog.created THEN [prog EXCEPT !.value = 100] ELSE prog

\* a variant that tells nothing when the child failed
FinishedReport_SuccessOnly(code, op, err, prog) ==
    IF code = 0
    THEN Report("Succeeded", op, <<>>, prog, "NotRunning")
    ELSE Report("None", NoPath, <<>>, prog, "NotRunning")

\* process_finished: the message box shown
FinishedReport(code, op, err, prog) ==
    IF code = 0
    THEN Report("Succeeded", op, <<>>, prog, "NotRunning")
    ELSE Report("Failed", NoPath, err, prog, "NotRunning")

\* a variant that starts the command again after a failure
FinishedChild_Retry(code) == IF code # 0 THEN "alive" ELSE "none"

\* process_finished: the child self.process tracks afterwards; the handler
\* reports and starts nothing
FinishedChild(code) == "none"

\* process_finished (slot of finished): the child is dead and QProcess has
\* taken its exit code
process_finished ==
    /\ proc_state = "Running"
    /\ child = "dead"
    /\ proc_state' = "NotRunning"
    /\ exit_code' = child_code
    /\ progress' = FinishedProgress(progress)
    /\ reports' = Append(reports, FinishedReport(child_code, output_path, errbuf, progress'))
    /\ errbuf' = IF child_code = 0 THEN errbuf ELSE <<>>
    /\ child' = FinishedChild(child_code)
    /\ UNCHANGED selVars
    /\ UNCHANGED <<mux_box, probe_failed>>
    /\ UNCHANGED <<total_duration, proc_out, child_code, n_alive, written, n_writes>>

\* cancel_mux: whether the request is acted upon
CancelAccepted(state) == state # "NotRunning"

\* cancel_mux (slot of progress.canceled): kill() only sends the signal, the
\* state of self.process changes when finished is delivered
cancel_mux ==
    /\ progress.created
    /\ CancelAccepted(proc_state) => Len(reports) < MaxCancels
    /\ IF CancelAccepted(proc_state)
       THEN /\ IF child = "alive"
               THEN /\ child' = "dead"
                    /\ \E code \in KilledCodes : child_code' = code
                    /\ n_alive' = n_alive - 1
               ELSE UNCHANGED <<child, child_code, n_alive>>
            /\ reports' = Append(reports, Report("Cancelled", NoPath, <<>>, progress,
                                                 proc_state))
       ELSE UNCHANGED <<child, child_code, n_alive, reports>>
    /\ UNCHANGED selVars
    /\ UNCHANGED <<mux_box, probe_failed>>
    /\ UNCHANGED <<total_duration, progress, proc_state, exit_code, proc_out, errbuf,
                   written, n_writes>>

----------------------------------------------------------------------------

Init ==
    /\ video_path = NoPath
    /\ audio_path = NoPath
    /\ output_path = NoPath
    /\ total_duration = 0
    /\ last_video_dir = ""
    /\ last_audio_dir = ""
    /\ save_toggle = TRUE
    /\ output_name_input = NoText
    /\ output_btn = FALSE
    /\ go_btn = FALSE
    /\ progress = NoProgress
    /\ proc_state = "NotRunning"
    /\ exit_code = 0
    /\ proc_out = NoPath
    /\ errbuf = <<>>
    /\ child = "none"
    /\ child_code = 0
    /\ n_alive = 0
    /\ written = <<>>
    /\ n_writes = 0
    /\ reports = <<>>
    /\ explicit_path = NoPath
    /\ video_since = FALSE
    /\ name_typed = FALSE
    /\ mux_box = ""
    /\ probe_failed = FALSE

Next ==
    \/ select_video
    \/ handle_video_drop
    \/ select_audio
    \/ handle_audio_drop
    \/ toggle_save_option
    \/ select_output
    \/ update_output_name
    \/ mux_files
    \/ ChildWrite
    \/ ChildExit
    \/ update_progress
    \/ process_finished
    \/ cancel_mux

Spec == Init /\ [][Next]_vars

\* The job alone: the inputs are dropped once or again, the output path stays
\* the one derived beside the video.
NextJob ==
    \/ handle_video_drop
    \/ handle_audio_drop
    \/ mux_files
    \/ ChildWrite
    \/ ChildExit
    \/ update_progress
    \/ process_finished
    \/ cancel_mux

SpecJob == Init /\ [][NextJob]_vars

\* The output path logic with jobs whose child writes nothing; files arrive by
\* drops, which deliver what the dialogs deliver of the accepted types.
NextOut ==
    \/ handle_video_drop
    \/ handle_audio_drop
    \/ toggle_save_option
    \/ select_output
    \/ update_output_name
    \/ mux_files
    \/ ChildExit
    \/ process_finished
    \/ cancel_mux

SpecOut == Init /\ [][NextOut]_vars

\* The selection handlers alone, dialogs included: no job is launched.
NextSel ==
    \/ select_video
    \/ handle_video_drop
    \/ select_audio
    \/ handle_audio_drop
    \/ toggle_save_option
    \/ select_output
    \/ update_output_name

SpecSel == Init /\ [][NextSel]_vars

\* A job with unknown duration after k heartbeat chunks were read, k close to
\* the cap: the states SpecJob would reach with MaxChunks at 95 and more.
RECURSIVE Heartbeats(_)
Heartbeats(k) ==
    IF k = 0 THEN <<>> ELSE Append(Heartbeats(k - 1), [time |-> NoTime, frame |-> TRUE])

InitHB ==
    \E video \in Videos, audio \in Audios, k \in (95 - MaxChunks)..95 :
        /\ video_path = video
        /\ audio_path = audio
        /\ output_path = UpdateDefaultOutputPath(video, DefaultName(video))
        /\ total_duration = 0
        /\ last_video_dir = Dirname(video)
        /\ last_audio_dir = Dirname(audio)
        /\ save_toggle = TRUE
        /\ output_name_input = DefaultName(video)
        /\ output_btn = FALSE
        /\ go_btn = TRUE
        /\ progress = [created |-> TRUE, value |-> k]
        /\ proc_state = "Running"
        /\ exit_code = 0
        /\ proc_out = output_path
        /\ errbuf = <<>>
        /\ child = "alive"
        /\ child_code = 0
        /\ n_alive = 1
        /\ written = Heartbeats(k)
        /\ n_writes = 0
        /\ reports = <<>>
        /\ explicit_path = NoPath
        /\ video_since = TRUE
        /\ name_typed = FALSE
        /\ mux_box = "Could not determine video duration"
        /\ probe_failed = TRUE

NextHB ==
    \/ ChildWrite
    \/ ChildExit
    \/ update_progress
    \/ process_finished
    \/ cancel_mux

SpecHB == InitHB /\ [][NextHB]_vars

\* The job handlers alone, from two states SpecSel reaches with the Mux button
\* enabled: a typed name in use beside the video, and a chosen output path
\* with the toggle off.
TypedBeside ==
    /\ video_path = [dir |-> "/v1", name |-> <<"a", ".mp4">>]
    /\ last_video_dir = "/v1"
    /\ save_toggle = TRUE
    /\ output_name_input = <<" ", "c", ".mp4", " ">>
    /\ output_path = [dir |-> "/v1", name |-> <<"c", ".mp4">>]
    /\ output_btn = FALSE
    /\ explicit_path = NoPath
    /\ video_since = TRUE
    /\ name_typed = TRUE

ChosenOutput ==
    /\ video_path = [dir |-> "/v2", name |-> <<"b", ".mov">>]
    /\ last_video_dir = "/v2"
    /\ save_toggle = FALSE
    /\ output_name_input = <<"b", "_mux", ".mp4">>
    /\ output_path = [dir |-> "/o", name |-> <<"out", ".mp4">>]
    /\ output_btn = TRUE
    /\ explicit_path = [dir |-> "/o", name |-> <<"out", ".mp4">>]
    /\ video_since = FALSE
    /\ name_typed = FALSE

InitFrame ==
    /\ TypedBeside \/ ChosenOutput
    /\ audio_path = [dir |-> "/s", name |-> <<"mix", ".wav">>]
    /\ last_audio_dir = "/s"
    /\ go_btn = TRUE
    /\ total_duration = 0
    /\ progress = NoProgress
    /\ proc_state = "NotRunning"
    /\ exit_code = 0
    /\ proc_out = NoPath
    /\ errbuf = <<>>
    /\ child = "none"
    /\ child_code = 0
    /\ n_alive = 0
    /\ written = <<>>
    /\ n_writes = 0
    /\ reports = <<>>
    /\ mux_box = ""
    /\ probe_failed = FALSE

NextFrame ==
    \/ mux_files
    \/ ChildWrite
    \/ ChildExit
    \/ update_progress
    \/ process_finished
    \/ cancel_mux

SpecFrame == InitFrame /\ [][NextFrame]_vars

\* SpecFrame with a child that exits in the end, by itself or killed, and an
\* event loop that delivers the finished signal.
FairFrame ==
    /\ SpecFrame
    /\ WF_vars(ChildExit)
    /\ WF_vars(process_finished)

----------------------------------------------------------------------------
\* Properties.

\* a child was started and process_finished has run for it
Finished == proc_state = "NotRunning" /\ proc_out # NoPath

Kinds(rs) == { rs[i].kind : i \in 1..Len(rs) }

C2_CancelledOnly ==
    (Finished /\ "Cancelled" \in Kinds(reports))
        => /\ Len(reports) = 1
           /\ reports[1].kind = "Cancelled"

\* C3: every terminal outcome is shown in a state where self.process is not
\* running any more.
C3_ReportedAfterExit ==
    \A i \in 1..Len(reports) : reports[i].state = "NotRunning"

\* C4: with a known duration, no update_progress lowers the progress value.
C4_Monotonic ==
    [][(update_progress /\ total_duration > 0) => progress'.value >= progress.value]_vars

\* C5: the progress value is always within 0..100.
C5_Range == progress.value \in 0..100

\* C5 witness: a running job whose progress value is 100 because a time stamp
\* beyond the duration was read (no chunk of the model is at the duration).
C5_Witness ==
    /\ proc_state = "Running"
    /\ total_duration > 0
    /\ progress.value = 100
    /\ \E i \in 1..Len(written) :
        /\ written[i].time # NoTime
        /\ Current(written[i].time) > total_duration

\* C6: with an unknown duration the progress value of a running process is
\* at most 95.
C6_HeartbeatCap ==
    (total_duration = 0 /\ proc_state = "Running") => progress.value <= 95

\* C6 witness: with an unknown duration a heartbeat chunk was read while the
\* value was 95 already.
C6_Witness ==
    /\ total_duration = 0
    /\ proc_state = "Running"
    /\ progress.value = 95
    /\ Len(written) > 95
    /\ errbuf = <<>>
    /\ \A i \in 1..Len(written) : written[i] = [time |-> NoTime, frame |-> TRUE]

\* C7: the Failed outcome carries all that the child wrote to standard error.
C7_FailedVerbatim ==
    (Finished /\ reports # <<>> /\ reports[Len(reports)].kind = "Failed")
        => reports[Len(reports)].err = written

\* C8: at most one ffmpeg child is alive, and it is the one self.process runs.
C8_OneJob ==
    /\ n_alive <= 1
    /\ n_alive = 1 => (child = "alive" /\ proc_state = "Running")

\* C8 witness: a mux request was made while the child was running (the progress
\* value is back at 0 although the heartbeat chunk the child wrote was read),
\* and there is still one child.
C8_Witness ==
    /\ proc_state = "Running"
    /\ n_alive = 1
    /\ written = <<[time |-> NoTime, frame |-> TRUE]>>
    /\ errbuf = <<>>
    /\ progress = NewProgress

\* a step that starts a child
Launch == proc_state = "NotRunning" /\ proc_state' = "Running"

\* the output path is the one chosen through select_output
ExplicitInUse ==
    explicit_path # NoPath /\ output_path = explicit_path /\ ~save_toggle

\* C9: when the output path is the one the user chose, selecting a video leaves
\* it as it is, and a launch hands that path to the child.
C9_ExplicitSurvivesVideo ==
    [][ExplicitInUse =>
          /\ video_path' # video_path => output_path' = explicit_path
          /\ Launch => proc_out' = explicit_path]_vars

\* C9 witness: a child runs with the chosen path although another video was
\* selected after the choice.
C9_Witness ==
    /\ ExplicitInUse
    /\ video_since
    /\ proc_state = "Running"
    /\ proc_out = explicit_path
    /\ Dirname(video_path) # Dirname(explicit_path)

\* C10 as stated: once the output path is the chosen one, only another choice
\* changes it.
C10_OnlyChoiceChanges ==
    [][(explicit_path # NoPath /\ output_path = explicit_path)
          => output_path' = explicit_path']_vars

\* C10 amended: once the output path is the chosen one, and while "save beside
\* video" stays off, only another choice changes it.
C10_OnlyChoiceOrToggleChanges ==
    [][(ExplicitInUse /\ ~save_toggle') => output_path' = explicit_path']_vars

\* C10 witness: the chosen path is still the output path after the name field
\* was edited to another name and a job was launched with it.
C10_Witness ==
    /\ ExplicitInUse
    /\ Strip(output_name_input) \notin {NoText, Basename(explicit_path)}
    /\ ~EndsWithMux(output_name_input)
    /\ proc_state = "Running"
    /\ proc_out = explicit_path

\* a step of set_video_path (from the dialog or from a drop)
VideoSelected == \E path \in Videos \cup OtherFiles : set_video_path(path)

\* C11: a name the user typed, when it is not empty, is still in the output
\* name field after a video was selected.
C11_TypedNameKept ==
    [][(VideoSelected /\ name_typed /\ output_name_input # NoText)
          => output_name_input' = output_name_input]_vars

\* C12: whenever 'save beside video' is on and a video is selected, the output
\* path is the video's directory joined with the trimmed name field, or with
\* "<video-stem>_mux.mp4" when the trimmed field is empty.
C12_DerivedBesideVideo ==
    (save_toggle /\ video_path # NoPath) =>
        LET trimmed == Strip(output_name_input)
            stem    == SubSeq(video_path.name, 1, Len(video_path.name) - 1)
            F       == IF trimmed # NoText THEN trimmed ELSE stem \o <<"_mux", ".mp4">>
        IN /\ output_path.dir = video_path.dir
           /\ output_path.name = F

\* a typed name with blanks around it is in use beside the video
C12_Witness ==
    /\ save_toggle
    /\ video_path # NoPath
    /\ output_name_input = <<" ", "c", ".mp4", " ">>
    /\ output_path = [dir |-> video_path.dir, name |-> <<"c", ".mp4">>]

\* C14: whenever a video and an audio file are selected and the output is
\* resolvable (the toggle is on, or an output path is set), the Mux button is
\* enabled.
C14_ReadyEnabled ==
    (/\ video_path # NoPath
     /\ audio_path # NoPath
     /\ (save_toggle \/ output_path # NoPath)) => go_btn

\* C13: every stored selection path has an accepted extension: the video path
\* ends in .mp4 or .mov and the audio path in .wav, a selection of any other
\* file having been rejected.
C13_AcceptedExtensions ==
    /\ video_path # NoPath => video_path.name[Len(video_path.name)] \in {".mp4", ".mov"}
    /\ audio_path # NoPath => audio_path.name[Len(audio_path.name)] \in {".wav"}

\* the elapsed time, in hundredths of a second, of the first time stamp in the
\* data read, -1 when the data holds none
Elapsed(data) ==
    IF \A i \in 1..Len(data) : data[i].time = NoTime THEN -1
    ELSE LET i == CHOOSE k \in 1..Len(data) :
                      /\ data[k].time # NoTime
                      /\ \A j \in 1..(k - 1) : data[j].time = NoTime
             t == data[i].time
         IN t[1] * 360000 + t[2] * 6000 + t[3] * 100 + t[4]

\* C15 as stated: a time sample read while the duration is known sets the
\* percent to elapsed/duration*100 rounded to the nearest integer and clamped
\* to 0..100.
C15_PercentRounded ==
    [][(update_progress /\ total_duration > 0 /\ Elapsed(errbuf) >= 0) =>
          LET e == Elapsed(errbuf)
              r == (200 * e + total_duration) \div (2 * total_duration)
          IN progress'.value = IF r > 100 THEN 100 ELSE r]_vars

\* C15 amended: a time sample read while the duration is known sets the percent
\* to the largest integer not above elapsed/duration*100, clamped to 0..100.
C15_PercentFloored ==
    [][(update_progress /\ total_duration > 0 /\ Elapsed(errbuf) >= 0) =>
          LET e == Elapsed(errbuf)
              v == progress'.value
          IN /\ v \in 0..100
             /\ v * total_duration <= 100 * e
             /\ v < 100 => 100 * e < (v + 1) * total_duration]_vars

\* C15 witness: with a duration of 120 s the sample time=00:01:00.00 was read
\* and the percent is 50.
C15_Witness ==
    /\ proc_state = "Running"
    /\ total_duration = 12000
    /\ written = <<[time |-> <<0, 1, 0, 0>>, frame |-> TRUE]>>
    /\ errbuf = <<>>
    /\ progress.value = 50

\* C16: with an unknown duration each read of the child's standard error that
\* holds "frame=" advances the percent by exactly one while it is below 95 and
\* leaves it unchanged at 95; a read without "frame=" leaves it unchanged.
C16_HeartbeatStep ==
    [][(update_progress /\ total_duration = 0) =>
          progress'.value =
              IF \E i \in 1..Len(errbuf) : errbuf[i].frame
              THEN (IF progress.value < 95 THEN progress.value + 1 ELSE progress.value)
              ELSE progress.value]_vars

\* C16 witness: with an unknown duration one heartbeat was read at 93 and the
\* percent is 94.
C16_Witness ==
    /\ total_duration = 0
    /\ proc_state = "Running"
    /\ n_writes = 1
    /\ errbuf = <<>>
    /\ Len(written) = 94
    /\ written[94] = [time |-> NoTime, frame |-> TRUE]
    /\ progress.value = 94

\* the last run of mux_files returned early, at one of its two checks
Rejected(box) == box \in {"No output location specified", "FFmpeg is not available"}

\* C17: whenever the duration probe of a launch ends in a failure (ffprobe not
\* spawned, a nonzero exit, an output that is no number), the duration is 0,
\* the warning is shown, and the launch still ends with the process running
\* and a fresh progress dialog.
C17_ProbeFailureIsZero ==
    [][(mux_files /\ ~Rejected(mux_box') /\ probe_failed') =>
          /\ total_duration' = 0
          /\ mux_box' = "Could not determine video duration"
          /\ proc_state' = "Running"
          /\ progress' = [created |-> TRUE, value |-> 0]]_vars

\* C17 witness: after a failed probe the job runs and a heartbeat has moved
\* the progress value to 1.
C17_Witness ==
    /\ probe_failed
    /\ total_duration = 0
    /\ proc_state = "Running"
    /\ child = "alive"
    /\ written = <<[time |-> NoTime, frame |-> TRUE]>>
    /\ errbuf = <<>>
    /\ progress.value = 1

\* C19: a run of mux_files that stops at a failed check (no output path after
\* resolution, or ffmpeg not available) starts no child, creates no progress
\* dialog, makes no duration probe, and leaves the process state as it was.
C19_RejectedLaunchLeavesJob ==
    [][(mux_files /\ Rejected(mux_box')) =>
          UNCHANGED <<proc_state, child, n_alive, proc_out, exit_code, progress,
                      total_duration, probe_failed, errbuf, reports>>]_vars

\* C19 witness: the ffmpeg check failed at the first mux request; nothing was
\* ever launched.
C19_Witness ==
    /\ go_btn
    /\ mux_box = "FFmpeg is not available"
    /\ proc_state = "NotRunning"
    /\ child = "none"
    /\ n_alive = 0
    /\ proc_out = NoPath
    /\ progress = [created |-> FALSE, value |-> 0]

\* C18: a child comes to life only in a step of mux_files, which the user
\* requests through the enabled Mux button; after a failure or a cancel
\* nothing starts one again.
C18_NoRetry ==
    [][(child' = "alive" /\ child # "alive") \/ n_alive' > n_alive
          => (go_btn /\ mux_files)]_vars

\* C18 witness: a job has failed without a cancel, and no child exists.
C18_Witness ==
    /\ proc_state = "NotRunning"
    /\ proc_out # NoPath
    /\ exit_code # 0
    /\ reports # <<>>
    /\ \A i \in 1..Len(reports) : reports[i].kind = "Failed"
    /\ child = "none"
    /\ n_alive = 0

\* a step of one of the job's operations: launch, progress chunk, cancel,
\* child exit and its handler
JobStep == mux_files \/ update_progress \/ cancel_mux \/ ChildExit \/ process_finished

\* C20: launching, reading a progress chunk, cancelling and the exit of the
\* child each leave the video path, the audio path, the output file name and
\* the output path as they were.
C20_JobLeavesSelection ==
    [][JobStep => /\ video_path' = video_path
                  /\ audio_path' = audio_path
                  /\ output_name_input' = output_name_input
                  /\ output_path' = output_path]_vars

\* C20 witness: a job launched with a typed name beside the video was
\* cancelled after a chunk was read, and has ended; the selection is as typed.
C20_Witness ==
    /\ proc_state = "NotRunning"
    /\ proc_out = [dir |-> "/v1", name |-> <<"c", ".mp4">>]
    /\ written # <<>>
    /\ errbuf = <<>>
    /\ Len(reports) = 2
    /\ reports[1].kind = "Cancelled"
    /\ output_name_input = <<" ", "c", ".mp4", " ">>
    /\ output_path = proc_out

\* C21: the path a Succeeded outcome tells is the output path the child was
\* given at launch.
C21_SucceededPathIsLaunched ==
    \A i \in 1..Len(reports) :
        reports[i].kind = "Succeeded" => reports[i].path = proc_out

\* C22: once a terminal outcome has been shown for a job, neither a later
\* chunk of standard error nor the exit of the child and its notification
\* changes the progress value.
C22_ProgressFrozenAfterOutcome ==
    [][(reports # <<>> /\ (update_progress \/ ChildExit \/ process_finished))
          => progress'.value = progress.value]_vars

\* C23: a mux request made while self.process is running starts no second
\* child and leaves the progress dialog, its value and the probed duration
\* of the running job as they were.
C23_MuxWhileRunningIgnored ==
    [][(mux_files /\ proc_state = "Running")
          => /\ n_alive' = n_alive
             /\ child' = child
             /\ progress' = progress
             /\ total_duration' = total_duration]_vars

\* C24: a mux request that passes its checks after a terminal outcome was
\* shown starts from a fresh state: the progress value is 0 in a new dialog
\* and the duration is the one probed by this request (0 with the warning, or
\* a probed value), whatever the earlier job left; when the earlier process
\* has ended, a new child runs with nothing written, read or reported yet.
C24_FreshLaunch ==
    [][(mux_files /\ ~Rejected(mux_box') /\ reports # <<>>) =>
          /\ progress' = [created |-> TRUE, value |-> 0]
          /\ total_duration' \in {0, 12000}
          /\ total_duration' = 0 <=> mux_box' = "Could not determine video duration"
          /\ probe_failed' => total_duration' = 0
          /\ proc_state = "NotRunning" =>
                /\ proc_state' = "Running"
                /\ child' = "alive"
                /\ proc_out' = output_path'
                /\ written' = <<>>
                /\ errbuf' = <<>>
                /\ reports' = <<>>]_vars

\* C24 witness: a new job runs with an unknown duration and the value 0 after
\* an earlier child ended with a nonzero code (child_code still holds it).
C24_Witness ==
    /\ proc_state = "Running"
    /\ child = "alive"
    /\ child_code # 0
    /\ reports = <<>>
    /\ written = <<>>
    /\ total_duration = 0
    /\ progress = [created |-> TRUE, value |-> 0]

\* the value a heartbeat leaves
Beat(v) == IF v < 95 THEN v + 1 ELSE v

\* the value a time sample of e hundredths leaves when the duration is d > 0
Sample(e, d) == IF (100 * e) \div d > 100 THEN 100 ELSE (100 * e) \div d

\* C25 as stated: the data read is classified by content alone: with a time
\* stamp it is a time sample and never a heartbeat, whatever the duration (so
\* with an unknown duration it leaves the percent alone); without a time stamp
\* and with a frame marker it is a heartbeat; with neither it changes nothing.
C25_ByContentAlone ==
    [][update_progress =>
          progress'.value =
              IF Elapsed(errbuf) >= 0
              THEN (IF total_duration > 0 THEN Sample(Elapsed(errbuf), total_duration)
                    ELSE progress.value)
              ELSE IF \E i \in 1..Len(errbuf) : errbuf[i].frame
                   THEN Beat(progress.value)
                   ELSE progress.value]_vars

\* C25 amended: the data read yields at most one signal: a time sample when it
\* holds a time stamp and the duration is known; otherwise a heartbeat when it
\* holds a frame marker (so data with both is a heartbeat while the duration
\* is unknown); otherwise nothing.
C25_ByContentAndDuration ==
    [][update_progress =>
          progress'.value =
              IF Elapsed(errbuf) >= 0 /\ total_duration > 0
              THEN Sample(Elapsed(errbuf), total_duration)
              ELSE IF \E i \in 1..Len(errbuf) : errbuf[i].frame
                   THEN Beat(progress.value)
                   ELSE progress.value]_vars

\* C25 witness: with an unknown duration, data with a time stamp and a frame
\* marker was read and counted as a heartbeat.
C25_Witness ==
    /\ proc_state = "Running"
    /\ total_duration = 0
    /\ written = <<[time |-> <<0, 0, 1, 0>>, frame |-> TRUE]>>
    /\ errbuf = <<>>
    /\ progress.value = 1

\* C26: with a child that exits in the end and a finished signal that is
\* delivered, every running job comes to an end with Succeeded or Failed
\* shown, and after a cancel request on a running job the child is gone and
\* the process not running in the end.
C26_JobEnds ==
    /\ (proc_state = "Running") ~>
          (/\ proc_state = "NotRunning"
           /\ reports # <<>>
           /\ reports[Len(reports)].kind \in {"Succeeded", "Failed"})
    /\ (proc_state = "Running" /\ \E i \in 1..Len(reports) : reports[i].kind = "Cancelled") ~>
          (proc_state = "NotRunning" /\ child = "none")

\* C26 witness: a job on which cancel was requested has ended.
C26_Witness ==
    /\ proc_state = "NotRunning"
    /\ child = "none"
    /\ n_alive = 0
    /\ Len(reports) = 2
    /\ reports[1].kind = "Cancelled"
    /\ reports[1].state = "Running"
    /\ reports[2].kind = "Failed"

\* C27: the Mux button is enabled only when a video and an audio file are
\* selected and the output path a launch would use is not empty (the toggle
\* is on, or an output path is set); no run of mux_files has shown "No output
\* location specified".
C27_EnabledImpliesOutput ==
    /\ go_btn => /\ video_path # NoPath
                 /\ audio_path # NoPath
                 /\ (save_toggle \/ output_path # NoPath)
    /\ mux_box # "No output location specified"

\* C27 witness: a job was launched with the toggle off and no chosen path: the
\* path derived while the toggle was on is still there.
C27_Witness ==
    /\ go_btn
    /\ ~save_toggle
    /\ explicit_path = NoPath
    /\ output_path # NoPath
    /\ proc_state = "Running"
    /\ proc_out = output_path

\* C28: whenever process_finished runs, whatever the exit code of the child
\* (0, nonzero, killed after a cancel), the progress value is 100 afterwards
\* and is 100 already when the outcome, Succeeded or Failed, is shown.
C28_FullOnAnyFinish ==
    [][process_finished =>
          /\ progress'.value = 100
          /\ reports'[Len(reports')].kind \in {"Succeeded", "Failed"}
          /\ reports'[Len(reports')].percent = 100]_vars

\* C28 witness: a child killed after a cancel at 0 has finished with a nonzero
\* code, and Failed was shown at 100.
C28_Witness ==
    /\ proc_state = "NotRunning"
    /\ exit_code # 0
    /\ Len(reports) = 2
    /\ reports[1].kind = "Cancelled"
    /\ reports[1].percent = 0
    /\ reports[2].kind = "Failed"
    /\ reports[2].percent = 100
    /\ progress.value = 100

\* C29: a cancel request made when no child is running (the child has exited,
\* or none was started) kills nothing, shows no Cancelled outcome and leaves
\* the job, the progress and the selection as they were.
C29_CancelWithoutChildIsNoOp ==
    [][(cancel_mux /\ child # "alive") => UNCHANGED vars]_vars

====
